---------------------------- MODULE Spec2Model ----------------------------
(***************************************************************************)
(* A model of the 2048 rules engine of src/src/modules/Game.class.js: the  *)
(* grid, the score, the status, the four directional transforms built on   *)
(* one upward merge, tile spawning and the status evaluation; and of the   *)
(* two listeners of src/src/scripts/main.js that call it.                  *)
(*                                                                         *)
(* A tile value is a JavaScript number holding a non-negative integer. It  *)
(* is represented by the set of the positions of the 1 digits of its       *)
(* binary expansion ({} is 0, {1} is 2, {11} is 2048, {1, 32} is 2^32+2), *)
(* so that values of 2^31 and above, which the 32-bit operator & of        *)
(* sanitizeState truncates, can be written down.                           *)
(***************************************************************************)
EXTENDS Integers, Sequences, FiniteSets, TLC

VARIABLES
    state,              \* this._state: the live grid, N rows of N values
    score,              \* this._score
    status,             \* this._status
    initialState,       \* this.initialState: the snapshot kept for restart()
    startTilesAmount,   \* this.startTilesAmount
    aliased,            \* TRUE when _state and initialState are one object
    last,               \* the last call: its name, its arguments, the engine
                        \* before it and the grid between its transform and
                        \* its spawn
    steps               \* number of calls made so far

vars == <<state, score, status, initialState, startTilesAmount, aliased,
          last, steps>>

---------------------------------------------------------------------------
(* Bounds of the model.                                                    *)

\* Calls (start, restart, move) made on one engine.
MaxSteps == 3

\* Largest startTilesAmount given to the constructor.
MaxStartTiles == 2

---------------------------------------------------------------------------
(* Sizes the program fixes.                                                *)

\* Side of the grid: the size of DEFAULT_BOARD.
N == 4

\* Width of the operands of the operator & (ECMAScript ToInt32).
WordBits == 32

---------------------------------------------------------------------------
(* Numbers.                                                                *)

MaxOf(S) == CHOOSE x \in S : \A y \in S : y <= x

MinOf(S) == CHOOSE x \in S : \A y \in S : x <= y

\* The number n < 2^31 as a set of digit positions.
Num(n) == {i \in 0..30 : (n \div (2 ^ i)) % 2 = 1}

Zero == {}

Two == {1}

Four == {2}

\* n * 2
Double(v) == {b + 1 : b \in v}

\* n - 1, for n > 0
Pred(v) == (v \ {MinOf(v)}) \cup (0 .. (MinOf(v) - 1))

\* Whether adding a and b carries into digit i: some lower digit is 1 in
\* both, and every digit between is 1 in one of them.
Carry(a, b, i) ==
    \E j \in 0..(i - 1) :
        /\ j \in a
        /\ j \in b
        /\ \A k \in (j + 1)..(i - 1) : k \in a \/ k \in b

\* a + b
Add(a, b) ==
    {i \in 0..(MaxOf(a \cup b \cup {0}) + 1) :
        ((i \in a) # (i \in b)) # Carry(a, b, i)}

\* a <= b
Leq(a, b) ==
    \/ a = b
    \/ MaxOf((a \ b) \cup (b \ a)) \in b

\* The mathematical property: n = 2^k for some k >= 0.
IsPow2(v) == Cardinality(v) = 1

---------------------------------------------------------------------------
(* Grids.                                                                  *)

Idx == 1..N

\* A function over 1..n as a JavaScript array: the tuple of its values.
Array(f) == f \o <<>>

\* The grid g with cell (r, c) set to v: this._state[r][c] = v.
Put(g, r, c, v) == [g EXCEPT ![r][c] = v]

Column(g, c) == Array([r \in Idx |-> g[r][c]])

Reverse(s) == Array([i \in 1..Len(s) |-> s[Len(s) + 1 - i]])

IsGrid(g) ==
    /\ DOMAIN g = Idx
    /\ \A r \in Idx : DOMAIN g[r] = Idx

\* An integer matrix as a grid of numbers.
Grid(m) == Array([r \in Idx |-> Array([c \in Idx |-> Num(m[r][c])])])

---------------------------------------------------------------------------
(* Constants of the class.                                                 *)

DEFAULT_BOARD == Array([r \in Idx |-> Array([c \in Idx |-> Zero])])

START_TILES_QUANTITY_DEFAULT == 2

MOVE_KEYS == {"ArrowLeft", "ArrowRight", "ArrowUp", "ArrowDown"}

STATUS == [Idle |-> "Idle", Playing |-> "Playing", Lost |-> "Lost", Won |-> "Won"]

\* The literal 2048 of updateGameStatus.
WinningValue == Num(2048)

---------------------------------------------------------------------------
(* sanitizeState                                                           *)

\* ToInt32, as the 32 low digits of the two's complement pattern.
ToInt32(v) == {b \in v : b < WordBits}

\* (n) => n > 0 && (n & (n - 1)) === 0
isPowerOfTwo(n) ==
    /\ n # Zero
    /\ ToInt32(n) \cap ToInt32(Pred(n)) = {}

\* Math.pow(2, Math.floor(Math.log2(n))), 0 for n <= 0
getNearestLowerPowerOfTwo(n) == IF n = Zero THEN Zero ELSE {MaxOf(n)}

sanitizeValue(val, forcePowerOfTwo) ==
    IF forcePowerOfTwo
    THEN getNearestLowerPowerOfTwo(val)
    ELSE IF isPowerOfTwo(val) THEN val ELSE Zero

sanitizeState(g, forcePowerOfTwo) ==
    Array([r \in DOMAIN g |->
             Array([c \in DOMAIN g[r] |-> sanitizeValue(g[r][c], forcePowerOfTwo)])])

\* An assignment in place of structuredClone(x): the same object.
sameObject(x) == [value |-> x, fresh |-> FALSE]

\* structuredClone(x): an equal value in a new object.
structuredClone(x) == [value |-> x, fresh |-> TRUE]

---------------------------------------------------------------------------
(* The grid transformation primitives.                                     *)

\* this._state.reverse()
reverseGrid(g) == Array([r \in Idx |-> g[N + 1 - r]])

\* the swaps of [i][j] and [j][i] for all i < j
transpose(g) == Array([i \in Idx |-> Array([j \in Idx |-> g[j][i]])])

\* this._state.forEach((row) => row.reverse())
reverseEachRow(g) == Array([r \in Idx |-> Reverse(g[r])])

\* rotateClockwise without the reversal of the rows.
rotateClockwiseNoReverse(g) == transpose(g)

rotateClockwise(g) == reverseEachRow(transpose(g))

rotateCounterClockwise(g) == transpose(reverseEachRow(g))

---------------------------------------------------------------------------
(* handleMove: the upward merge.                                           *)

IsNonZero(v) == v # Zero

\* The first inner loop: the non-zero values of column col, top to bottom.
numbersOf(g, col) == SelectSeq(Column(g, col), IsNonZero)

\* mergeFrom with i++ after a merge where the code has i += 2: the second
\* tile of a merged pair is scanned again.
RECURSIVE mergeFromStepOne(_, _)
mergeFromStepOne(numbers, i) ==
    IF i > Len(numbers)
    THEN <<>>
    ELSE IF i + 1 <= Len(numbers) /\ numbers[i] = numbers[i + 1]
         THEN LET stackedNumber == Double(numbers[i])
              IN <<[tile |-> stackedNumber, gain |-> stackedNumber]>>
                   \o mergeFromStepOne(numbers, i + 1)
         ELSE <<[tile |-> numbers[i], gain |-> Zero]>>
                   \o mergeFromStepOne(numbers, i + 1)

\* The while loop over numbers from index i (counted from 1): the tiles it
\* pushes to merged, each with what it adds to the score.
RECURSIVE mergeFrom(_, _)
mergeFrom(numbers, i) ==
    IF i > Len(numbers)
    THEN <<>>
    ELSE IF i + 1 <= Len(numbers) /\ numbers[i] = numbers[i + 1]
         THEN LET stackedNumber == Double(numbers[i])
              IN <<[tile |-> stackedNumber, gain |-> stackedNumber]>>
                   \o mergeFrom(numbers, i + 2)
         ELSE <<[tile |-> numbers[i], gain |-> Zero]>>
                   \o mergeFrom(numbers, i + 1)

\* while (merged.length < this.size) merged.push(0)
padZeros(merged) == merged \o [i \in 1..(N - Len(merged)) |-> Zero]

\* writtenBack stopping one row early: the last row is left empty.
writtenBackButLastRow(merged) == SubSeq(merged, 1, N - 1) \o <<Zero>>

\* for (row...) this._state[row][col] = merged[row]: the N first values.
writtenBack(merged) == SubSeq(merged, 1, N)

\* The sum of the numbers s[i..Len(s)].
RECURSIVE SumFrom(_, _)
SumFrom(s, i) == IF i > Len(s) THEN Zero ELSE Add(s[i], SumFrom(s, i + 1))

\* mergeColumn adding numbers[i] to the score where the code adds
\* stackedNumber.
mergeColumnScoresTileValue(g, col) ==
    LET pushed == mergeFrom(numbersOf(g, col), 1)
    IN [merged |-> writtenBack(padZeros(Array([i \in 1..Len(pushed) |-> pushed[i].tile]))),
        gain   |-> SumFrom(Array([i \in 1..Len(pushed) |->
                                    {b - 1 : b \in pushed[i].gain}]), 1)]

\* One column of handleMove: the column written back and the score added.
mergeColumn(g, col) ==
    LET pushed == mergeFrom(numbersOf(g, col), 1)
    IN [merged |-> writtenBack(padZeros(Array([i \in 1..Len(pushed) |-> pushed[i].tile]))),
        gain   |-> SumFrom(Array([i \in 1..Len(pushed) |-> pushed[i].gain]), 1)]

\* handleMove on grid g with score sc: the new grid and the new score.
handleMove(g, sc) ==
    LET cols == Array([col \in Idx |-> mergeColumn(g, col)])
    IN [state |-> Array([row \in Idx |->
                     Array([col \in Idx |-> cols[col].merged[row]])]),
        score |-> Add(sc, SumFrom(Array([col \in Idx |-> cols[col].gain]), 1))]

moveUp(g, sc) == handleMove(g, sc)

moveDown(g, sc) ==
    LET h == handleMove(reverseGrid(g), sc)
    IN [state |-> reverseGrid(h.state), score |-> h.score]

moveLeft(g, sc) ==
    LET h == handleMove(rotateClockwise(g), sc)
    IN [state |-> rotateCounterClockwise(h.state), score |-> h.score]

moveRight(g, sc) ==
    LET h == handleMove(rotateCounterClockwise(g), sc)
    IN [state |-> rotateClockwise(h.state), score |-> h.score]

\* The switch of move(key): no case matches a key outside MOVE_KEYS.
moveSwitch(key, g, sc) ==
    CASE key = "ArrowUp"    -> moveUp(g, sc)
      [] key = "ArrowRight" -> moveRight(g, sc)
      [] key = "ArrowDown"  -> moveDown(g, sc)
      [] key = "ArrowLeft"  -> moveLeft(g, sc)
      [] OTHER              -> [state |-> g, score |-> sc]

---------------------------------------------------------------------------
(* Spawning and the status.                                                *)

\* Math.random() < 0.9 ? 2 : 4
getTwoOrFour == {Two, Four}

emptyCells(g) == {rc \in Idx \X Idx : g[rc[1]][rc[2]] = Zero}

\* placeNewTile drawing its cell among all the cells.
placeNewTileAnyCell(g) ==
    {Put(g, rc[1], rc[2], v) : rc \in Idx \X Idx, v \in getTwoOrFour}

\* placeNewTile: the grids it can leave, one per random draw.
placeNewTile(g) ==
    IF emptyCells(g) = {}
    THEN {g}
    ELSE {Put(g, rc[1], rc[2], v) : rc \in emptyCells(g), v \in getTwoOrFour}

\* The grids k successive placeNewTile calls can leave.
RECURSIVE placeTiles(_, _)
placeTiles(g, k) ==
    IF k <= 0
    THEN {g}
    ELSE UNION {placeTiles(h, k - 1) : h \in placeNewTile(g)}

\* checkMovePossibility without the comparison with the cell below.
checkMovePossibilityRowsOnly(g) ==
    \E row \in Idx, col \in Idx :
        LET cell == g[row][col]
        IN \/ cell = Zero
           \/ col < N /\ g[row][col + 1] = cell

checkMovePossibility(g) ==
    \E row \in Idx, col \in Idx :
        LET cell == g[row][col]
        IN \/ cell = Zero
           \/ col < N /\ g[row][col + 1] = cell
           \/ row < N /\ g[row + 1][col] = cell

\* this._state.some((row) => row.includes(2048))
hasWon(g) == \E row \in Idx : \E col \in Idx : g[row][col] = WinningValue

\* updateGameStatus looking for 2048 before looking for a possible move.
updateGameStatusWinFirst(g, st) ==
    IF hasWon(g)
    THEN STATUS.Won
    ELSE IF ~checkMovePossibility(g) THEN STATUS.Lost ELSE st

\* updateGameStatus setting Playing when the grid can move without a 2048.
updateGameStatusSetsPlaying(g, st) ==
    IF ~checkMovePossibility(g)
    THEN STATUS.Lost
    ELSE IF hasWon(g) THEN STATUS.Won ELSE STATUS.Playing

\* updateGameStatus taking a grid without an empty cell for a lost one.
updateGameStatusLostWhenFull(g, st) ==
    IF emptyCells(g) = {}
    THEN STATUS.Lost
    ELSE IF hasWon(g) THEN STATUS.Won ELSE st

\* updateGameStatus: the status it leaves, given the one before.
updateGameStatus(g, st) ==
    IF ~checkMovePossibility(g)
    THEN STATUS.Lost
    ELSE IF hasWon(g) THEN STATUS.Won ELSE st

---------------------------------------------------------------------------
(* The grids given to the constructor.                                     *)

\* 2^32 + 2: not a power of two, and 2 modulo 2^32.
Big == {1, 32}

\* One move from 2048 being on a board that can still move.
RawHas2048 ==
    Grid(<< <<2048,  4,   2,   2>>,
            <<   8, 16,  32,  64>>,
            <<  16, 32,  64, 128>>,
            <<  32, 64, 128, 256>> >>)

\* Full, no two equal neighbours, and a 2048 among the tiles.
RawStuck2048 ==
    Grid(<< <<2048, 2, 4, 2>>,
            <<   2, 4, 2, 4>>,
            <<   4, 2, 4, 2>>,
            <<   2, 4, 2, 4>> >>)

\* A pair of 1024 in the top row.
RawPair1024 ==
    Grid(<< <<1024, 1024,   8,  16>>,
            <<   8,   16,  32,  64>>,
            <<  16,   32,  64, 128>>,
            <<  32,   64, 128, 256>> >>)

\* A pair of 2048 and a pair of 2 in the top row.
RawPair2048 ==
    Grid(<< <<2048, 2048,   2,   2>>,
            <<   8,   16,  32,  64>>,
            <<  16,   32,  64, 128>>,
            <<  32,   64, 128, 256>> >>)

\* One empty cell and no two equal neighbours.
RawNearLoss ==
    Grid(<< << 0,  2,   4,   8>>,
            << 4, 32,  64, 128>>,
            << 2,  4,   8,  16>>,
            <<32, 64, 128, 256>> >>)

\* Values that are no powers of two (3 and 2049) in two corners.
RawOdd == Put(Put(RawNearLoss, 1, 1, Num(3)), 4, 4, Num(2049))

\* A value of 2^32 + 2 among small tiles, and one empty cell.
RawBig == Put(Put(RawNearLoss, 1, 1, Big), 4, 4, Zero)

InputGrids ==
    {RawHas2048, RawStuck2048, RawPair1024, RawPair2048, RawOdd, RawNearLoss,
     RawBig}

\* Keys given to move(): the four of MOVE_KEYS and one that is none of them.
Keys == MOVE_KEYS \cup {"Enter"}

---------------------------------------------------------------------------
(* The engine as a state machine.                                          *)

\* What the call op(key) leaves in last: the engine as it was before the
\* call, and the grid as the transform of a move left it (moved).
Call(op, key, moved) ==
    [op |-> op, key |-> key, force |-> FALSE, state |-> state,
     score |-> score, status |-> status, moved |-> moved]

\* A write of grid g through this._state, seen through this.initialState
\* when both name one object.
WriteState(g) ==
    /\ state' = g
    /\ initialState' = IF aliased' THEN g ELSE initialState

\* new Game({initialState: raw, startTilesAmount: k, forcePowerOfTwo: f})
constructor(raw, k, f) ==
    LET init == sanitizeState(raw, f)
        copy == structuredClone(init)
    IN /\ state = init
       /\ initialState = copy.value
       /\ aliased = ~copy.fresh
       /\ startTilesAmount = k
       /\ status = STATUS.Idle
       /\ score = Zero
       /\ last = [op |-> "new", key |-> "", force |-> f, state |-> raw,
                  score |-> Zero, status |-> STATUS.Idle, moved |-> init]
       /\ steps = 0

Init ==
    \E raw \in InputGrids, k \in 0..MaxStartTiles, f \in BOOLEAN :
        constructor(raw, k, f)

\* start calling placeNewTile once, whatever startTilesAmount is.
startSpawnsOnce ==
    /\ steps < MaxSteps
    /\ steps' = steps + 1
    /\ status' = STATUS.Playing
    /\ \E g \in placeNewTile(state) :
          /\ aliased' = aliased
          /\ WriteState(g)
    /\ last' = Call("start", "", state)
    /\ UNCHANGED <<score, startTilesAmount>>

start ==
    /\ steps < MaxSteps
    /\ steps' = steps + 1
    /\ status' = STATUS.Playing
    /\ \E g \in placeTiles(state, startTilesAmount) :
          /\ aliased' = aliased
          /\ WriteState(g)
    /\ last' = Call("start", "", state)
    /\ UNCHANGED <<score, startTilesAmount>>

\* restart without this._score = 0.
restartKeepsScore ==
    /\ steps < MaxSteps
    /\ steps' = steps + 1
    /\ LET copy == structuredClone(initialState)
       IN \E g \in placeTiles(copy.value, startTilesAmount) :
             /\ aliased' = ~copy.fresh
             /\ WriteState(g)
    /\ status' = STATUS.Playing
    /\ last' = Call("restart", "", state)
    /\ UNCHANGED <<score, startTilesAmount>>

\* restart without this._state = structuredClone(this.initialState).
restartKeepsBoard ==
    /\ steps < MaxSteps
    /\ steps' = steps + 1
    /\ \E g \in placeTiles(state, startTilesAmount) :
          /\ aliased' = aliased
          /\ WriteState(g)
    /\ score' = Zero
    /\ status' = STATUS.Playing
    /\ last' = Call("restart", "", state)
    /\ UNCHANGED startTilesAmount

\* restart without its call of start(): the status is left Idle and no
\* tile is placed.
restartWithoutStart ==
    /\ steps < MaxSteps
    /\ steps' = steps + 1
    /\ LET copy == structuredClone(initialState)
       IN /\ aliased' = ~copy.fresh
          /\ WriteState(copy.value)
    /\ score' = Zero
    /\ status' = STATUS.Idle
    /\ last' = Call("restart", "", state)
    /\ UNCHANGED startTilesAmount

restart ==
    /\ steps < MaxSteps
    /\ steps' = steps + 1
    /\ LET copy == structuredClone(initialState)
       IN \E g \in placeTiles(copy.value, startTilesAmount) :
             /\ aliased' = ~copy.fresh
             /\ WriteState(g)
    /\ score' = Zero
    /\ status' = STATUS.Playing
    /\ last' = Call("restart", "", state)
    /\ UNCHANGED startTilesAmount

\* move spawning a tile only when the transform changed the grid.
moveSpawnsOnlyAfterChange(key) ==
    /\ steps < MaxSteps
    /\ steps' = steps + 1
    /\ LET t == moveSwitch(key, state, score)
       IN /\ \E g \in (IF t.state = state THEN {state} ELSE placeNewTile(t.state)) :
                /\ aliased' = aliased
                /\ WriteState(g)
                /\ status' = updateGameStatus(g, status)
          /\ score' = t.score
          /\ last' = Call("move", key, t.state)
    /\ UNCHANGED startTilesAmount

\* move doing nothing unless the status is Playing.
moveOnlyWhilePlaying(key) ==
    /\ steps < MaxSteps
    /\ steps' = steps + 1
    /\ LET t == IF status = STATUS.Playing
                THEN moveSwitch(key, state, score)
                ELSE [state |-> state, score |-> score]
       IN /\ \E g \in (IF status = STATUS.Playing
                        THEN placeNewTile(t.state)
                        ELSE {state}) :
                /\ aliased' = aliased
                /\ WriteState(g)
                /\ status' = IF status = STATUS.Playing
                             THEN updateGameStatus(g, status)
                             ELSE status
          /\ score' = t.score
          /\ last' = Call("move", key, t.state)
    /\ UNCHANGED startTilesAmount

move(key) ==
    /\ steps < MaxSteps
    /\ steps' = steps + 1
    /\ LET t == moveSwitch(key, state, score)
       IN /\ \E g \in placeNewTile(t.state) :
                /\ aliased' = aliased
                /\ WriteState(g)
                /\ status' = updateGameStatus(g, status)
          /\ score' = t.score
          /\ last' = Call("move", key, t.state)
    /\ UNCHANGED startTilesAmount

Next ==
    \/ start
    \/ restart
    \/ \E key \in Keys : move(key)

Spec == Init /\ [][Next]_vars

---------------------------------------------------------------------------
(* The engine driven by the listeners of main.js: the click of the action  *)
(* button and the keydown of the document. The listeners read the status   *)
(* and the key only, and are run here on the engines of Init; the engine   *)
(* of main.js is new Game(), the default grid with two start tiles.        *)

\* actionButton.addEventListener('click', ...)
actionButtonClick ==
    IF status = STATUS.Idle
    THEN start
    ELSE restart

\* document.addEventListener('keydown', ...) with ev.key = key
keydown(key) ==
    /\ key \in MOVE_KEYS
    /\ move(key)

NextPage ==
    \/ actionButtonClick
    \/ \E key \in Keys : keydown(key)

SpecPage == Init /\ [][NextPage]_vars

---------------------------------------------------------------------------
(* The methods called one at a time: one call of start, move, moveUp,      *)
(* moveDown, moveLeft, moveRight or placeNewTile on a new engine,          *)
(* for every grid whose columns are drawn from UnitColumns.                *)

UnitColumns ==
    { <<0, 0, 0, 0>>, <<2, 2, 2, 0>>, <<2, 2, 2, 2>>, <<4, 2, 2, 0>>,
      <<2, 0, 4, 4>>, <<2, 4, 2, 4>> }

UnitGrids ==
    { Array([r \in Idx |-> Array([c \in Idx |-> Num(cols[c][r])])]) :
        cols \in [Idx -> UnitColumns] }

InitUnit ==
    \E raw \in UnitGrids :
        constructor(raw, START_TILES_QUANTITY_DEFAULT, FALSE)

\* One call of a transform on the new engine.
CallTransform(name, t) ==
    /\ last.op = "new"
    /\ steps' = steps + 1
    /\ aliased' = aliased
    /\ WriteState(t.state)
    /\ score' = t.score
    /\ last' = Call(name, "", t.state)
    /\ UNCHANGED <<status, startTilesAmount>>

CallMoveUp == CallTransform("moveUp", moveUp(state, score))

CallMoveDown == CallTransform("moveDown", moveDown(state, score))

CallMoveLeft == CallTransform("moveLeft", moveLeft(state, score))

CallMoveRight == CallTransform("moveRight", moveRight(state, score))

CallPlaceNewTile ==
    /\ last.op = "new"
    /\ steps' = steps + 1
    /\ \E g \in placeNewTile(state) :
          /\ aliased' = aliased
          /\ WriteState(g)
    /\ last' = Call("placeNewTile", "", state)
    /\ UNCHANGED <<score, status, startTilesAmount>>

\* start() on the new engine.
CallStart ==
    /\ last.op = "new"
    /\ start

\* move(key) on the new engine.
CallMove(key) ==
    /\ last.op = "new"
    /\ move(key)

NextUnit ==
    \/ CallStart
    \/ \E key \in Keys : CallMove(key)
    \/ CallMoveUp
    \/ CallMoveDown
    \/ CallMoveLeft
    \/ CallMoveRight
    \/ CallPlaceNewTile

SpecUnit == InitUnit /\ [][NextUnit]_vars

---------------------------------------------------------------------------
(* Vocabulary of the properties.                                           *)

Cells == Idx \X Idx

At(g, rc) == g[rc[1]][rc[2]]

\* A sequence of small integers as a sequence of numbers.
Nums(s) == Array([i \in 1..Len(s) |-> Num(s[i])])

\* 0 or a power of two.
ValidTile(v) == v = Zero \/ IsPow2(v)

\* The cells where grids g and h differ.
Changed(g, h) == {rc \in Cells : At(g, rc) # At(h, rc)}

\* The cells next to rc: left, right, above, below.
Neighbours(rc) ==
    {n \in Cells : \/ n[1] = rc[1] /\ (n[2] = rc[2] + 1 \/ n[2] = rc[2] - 1)
                   \/ n[2] = rc[2] /\ (n[1] = rc[1] + 1 \/ n[1] = rc[1] - 1)}

\* Some cell is empty, or two neighbours hold equal non-zero values.
CanMove(g) ==
    \/ \E rc \in Cells : At(g, rc) = Zero
    \/ \E rc \in Cells : \E n \in Neighbours(rc) :
          At(g, rc) # Zero /\ At(g, n) = At(g, rc)

Has2048(g) == \E rc \in Cells : At(g, rc) = {11}

---------------------------------------------------------------------------
(* C1 *)

\* C1: after any sequence of start(), restart() and move(key) calls on an
\* engine constructed from any N by N grid of non-negative integers, every
\* cell is 0 or a power of two and the grid is N rows of N cells.
C1_CellsArePowersOfTwo ==
    /\ IsGrid(state)
    /\ \A rc \in Cells : ValidTile(At(state, rc))

\* The calls themselves keep the property: when the constructed grid has it
\* the live grid has it.
C1_CallsKeepPowersOfTwo ==
    (\A rc \in Cells : ValidTile(At(initialState, rc)))
        => C1_CellsArePowersOfTwo

---------------------------------------------------------------------------
(* C2 *)

\* One greedy pass over a sequence without gaps: the first two values, when
\* equal, become one doubled value that is not looked at again.
RECURSIVE Greedy(_)
Greedy(s) ==
    IF s = <<>>
    THEN <<>>
    ELSE IF Len(s) >= 2 /\ s[1] = s[2]
         THEN <<Double(s[1])>> \o Greedy(Tail(Tail(s)))
         ELSE <<s[1]>> \o Greedy(Tail(s))

\* The greedy pass over the non-zero values of a column, zeros after it.
GreedyColumn(col) ==
    LET merged == Greedy(SelectSeq(col, IsNonZero))
    IN Array([r \in Idx |-> IF r <= Len(merged) THEN merged[r] ELSE Zero])

\* C2: moveUp rewrites every column, independently of the others, as one
\* top-to-bottom greedy pairwise merge of its non-zero values followed by
\* zeros: 2,2,2,0 becomes 4,2,0,0; 2,2,2,2 becomes 4,4,0,0; 4,2,2,0 becomes
\* 4,4,0,0.
C2_UpIsGreedyMergePerColumn ==
    last.op = "moveUp" =>
        \A c \in Idx :
            LET before == Column(last.state, c)
                after  == Column(state, c)
            IN /\ after = GreedyColumn(before)
               /\ before = Nums(<<2, 2, 2, 0>>) => after = Nums(<<4, 2, 0, 0>>)
               /\ before = Nums(<<2, 2, 2, 2>>) => after = Nums(<<4, 4, 0, 0>>)
               /\ before = Nums(<<4, 2, 2, 0>>) => after = Nums(<<4, 4, 0, 0>>)

\* moveUp has run on a grid holding the three columns of the claim.
C2_Witness ==
    /\ last.op = "moveUp"
    /\ Column(last.state, 1) = Nums(<<2, 2, 2, 0>>)
    /\ Column(last.state, 2) = Nums(<<2, 2, 2, 2>>)
    /\ Column(last.state, 3) = Nums(<<4, 2, 2, 0>>)
    /\ Column(state, 1) = Nums(<<4, 2, 0, 0>>)
    /\ Column(state, 2) = Nums(<<4, 4, 0, 0>>)
    /\ Column(state, 3) = Nums(<<4, 4, 0, 0>>)

---------------------------------------------------------------------------
(* C3 *)

Transposed(g) == Array([r \in Idx |-> Array([c \in Idx |-> g[c][r]])])

RowMirror(g) == Array([r \in Idx |-> Array([c \in Idx |-> g[N + 1 - r][c]])])

ColMirror(g) == Array([r \in Idx |-> Array([c \in Idx |-> g[r][N + 1 - c]])])

Row(g, r) == g[r]

\* C3: moveLeft is the transpose of moveUp on the transposed grid, moveDown
\* the row mirror of moveUp on the row-mirrored grid, moveRight the column
\* mirror of moveLeft on the column-mirrored grid, each with the score of
\* that upward merge; tiles go to the named edge and the pair nearest that
\* edge merges first.
C3_DirectionsAgreeWithUp ==
    LET g  == last.state
        sc == last.score
    IN /\ last.op = "moveLeft" =>
            /\ state = Transposed(moveUp(Transposed(g), sc).state)
            /\ score = moveUp(Transposed(g), sc).score
            /\ \A r \in Idx :
                  Row(g, r) = Nums(<<2, 2, 2, 0>>) => Row(state, r) = Nums(<<4, 2, 0, 0>>)
       /\ last.op = "moveDown" =>
            /\ state = RowMirror(moveUp(RowMirror(g), sc).state)
            /\ score = moveUp(RowMirror(g), sc).score
            /\ \A c \in Idx :
                  Column(g, c) = Nums(<<2, 2, 2, 0>>)
                      => Column(state, c) = Nums(<<0, 0, 2, 4>>)
       /\ last.op = "moveRight" =>
            /\ state = ColMirror(moveLeft(ColMirror(g), sc).state)
            /\ score = moveLeft(ColMirror(g), sc).score
            /\ \A r \in Idx :
                  Row(g, r) = Nums(<<2, 2, 2, 0>>) => Row(state, r) = Nums(<<0, 0, 2, 4>>)

\* moveRight has run on a grid with a row 2,2,2,0 and merged its two
\* rightmost tiles.
C3_Witness ==
    /\ last.op = "moveRight"
    /\ Row(last.state, 2) = Nums(<<2, 2, 2, 0>>)
    /\ Row(state, 2) = Nums(<<0, 0, 2, 4>>)
    /\ Row(last.state, 1) = Nums(<<2, 2, 4, 2>>)
    /\ Row(state, 1) = Nums(<<0, 4, 4, 2>>)
    /\ Leq(Num(8), score)

---------------------------------------------------------------------------
(* C4 *)

\* The grid h is the grid g with one empty cell of g set to 2 or 4.
OneTileSpawned(g, h) ==
    \E rc \in Cells :
        /\ At(g, rc) = Zero
        /\ At(h, rc) \in {Num(2), Num(4)}
        /\ Changed(g, h) = {rc}

\* The status a move leaves on grid g when the status before was st.
StatusOn(g, st) ==
    IF ~CanMove(g) THEN "Lost" ELSE IF Has2048(g) THEN "Won" ELSE st

\* C4: move() spawns after its transform, also when the transform changed
\* nothing: with an empty cell after the transform exactly one empty cell
\* becomes 2 or 4 and the others keep their value, with none the grid stays
\* as the transform left it; the status is evaluated on the grid after the
\* spawn.
C4_MoveAlwaysSpawns ==
    last.op = "move" =>
        /\ last.moved = moveSwitch(last.key, last.state, last.score).state
        /\ (\E rc \in Cells : At(last.moved, rc) = Zero)
              => OneTileSpawned(last.moved, state)
        /\ (\A rc \in Cells : At(last.moved, rc) # Zero) => state = last.moved
        /\ status = StatusOn(state, last.status)

\* A move with an arrow key whose transform changed nothing has spawned a
\* tile, and the spawn decided the status (the grid before it could move).
C4_Witness ==
    /\ last.op = "move"
    /\ last.key \in MOVE_KEYS
    /\ last.moved = last.state
    /\ OneTileSpawned(last.moved, state)
    /\ CanMove(last.moved)
    /\ status = "Lost"

---------------------------------------------------------------------------
(* C5 *)

\* C5: placeNewTile() never overwrites a non-zero cell: with an empty cell
\* it sets exactly one cell, which was 0, to 2 or 4; with none it changes
\* nothing; it leaves the score and the status alone.
C5_SpawnOnlyInEmptyCell ==
    last.op = "placeNewTile" =>
        /\ \A rc \in Cells : At(last.state, rc) # Zero
              => At(state, rc) = At(last.state, rc)
        /\ (\E rc \in Cells : At(last.state, rc) = Zero)
              => OneTileSpawned(last.state, state)
        /\ (\A rc \in Cells : At(last.state, rc) # Zero) => state = last.state
        /\ score = last.score
        /\ status = last.status

\* placeNewTile has put a 4 on a grid with tiles and one empty cell only.
C5_Witness ==
    /\ last.op = "placeNewTile"
    /\ Cardinality({rc \in Cells : At(last.state, rc) = Zero}) = 1
    /\ \E rc \in Cells : At(last.state, rc) = Zero /\ At(state, rc) = Num(4)

---------------------------------------------------------------------------
(* C6 *)

\* C6: right after a move() the status is Lost exactly when the grid has no
\* empty cell and no two equal neighbours; checkMovePossibility() is true
\* exactly when some cell is 0 or two neighbours hold equal non-zero values.
C6_LostIffNoMovePossible ==
    /\ checkMovePossibility(state) <=> CanMove(state)
    /\ last.op = "move" => (status = "Lost" <=> ~CanMove(state))

\* A move in status Playing has left a full grid without equal neighbours.
C6_Witness ==
    /\ last.op = "move"
    /\ last.status = "Playing"
    /\ ~CanMove(state)
    /\ status = "Lost"

---------------------------------------------------------------------------
(* C7 *)

\* C7: when the grid after a move allows no move the status is Lost, not
\* Won, even with a 2048 on the grid.
C7_LostBeforeWon ==
    (last.op = "move" /\ ~CanMove(state) /\ Has2048(state)) => status = "Lost"

\* A move has left a grid that holds 2048 and allows no move.
C7_Witness ==
    /\ last.op = "move"
    /\ Has2048(state)
    /\ ~CanMove(state)
    /\ status = "Lost"

---------------------------------------------------------------------------
(* C8 *)

\* C8: the status changes only along the edges of the state machine: to
\* Playing by start() or restart(), and from Playing to Won or Lost by
\* move(); no move() changes a status of Won or Lost, and none takes Idle
\* to Won or Lost. (start() and restart() are allowed here from any status.)
C8_StatusFollowsStateMachine ==
    status # last.status =>
        \/ last.op \in {"start", "restart"} /\ status = "Playing"
        \/ last.op = "move" /\ last.status = "Playing" /\ status \in {"Won", "Lost"}

\* What the code does: a move leaves the status it found unless the grid
\* after it allows no move (Lost, from any status) or allows one and holds
\* 2048 (Won, from any status but Lost); Lost alone is kept by every move.
C8_MoveStatusEdges ==
    last.op = "move" =>
        /\ status \in {last.status, "Won", "Lost"}
        /\ last.status = "Lost" => status = "Lost"

\* A move has taken the status from Won to Lost.
C8_WonToLost ==
    /\ last.op = "move"
    /\ last.status = "Won"
    /\ status = "Lost"

\* A move has taken the status from Idle to Won.
C8_IdleToWon ==
    /\ last.op = "move"
    /\ last.status = "Idle"
    /\ status = "Won"

---------------------------------------------------------------------------
(* C9 *)

\* C9: the score does not decrease across start() or move(); restart() sets
\* it to 0.
C9_ScoreMonotoneUntilRestart ==
    /\ last.op \in {"start", "move"} => Leq(last.score, score)
    /\ last.op = "restart" => score = Zero

\* restart() has lowered a score that moves had raised.
C9_Witness ==
    /\ last.op = "restart"
    /\ last.score # Zero
    /\ score = Zero

---------------------------------------------------------------------------
(* C10 *)

---------------------------------------------------------------------------
(* C11 *)

\* The cells of g that hold 0, and those that do not.
EmptyOf(g) == {rc \in Cells : At(g, rc) = Zero}

NonZeroOf(g) == Cells \ EmptyOf(g)

\* C11: start() sets the status to Playing and fills exactly
\* min(startTilesAmount, empty cells before the call) distinct cells that
\* were empty with 2 or 4, changing no other cell and not the score; on the
\* new default engine it leaves exactly 2 non-zero cells, each 2 or 4,
\* status Playing and score 0.
C11_StartFillsStartTiles ==
    last.op = "start" =>
        LET filled == Changed(last.state, state)
        IN /\ status = "Playing"
           /\ score = last.score
           /\ filled \subseteq EmptyOf(last.state)
           /\ \A rc \in filled : At(state, rc) \in {Num(2), Num(4)}
           /\ Cardinality(filled)
                 = MinOf({startTilesAmount, Cardinality(EmptyOf(last.state))})
           /\ (last.state = DEFAULT_BOARD /\ startTilesAmount = 2)
                 => /\ Cardinality(NonZeroOf(state)) = 2
                    /\ \A rc \in NonZeroOf(state) :
                          At(state, rc) \in {Num(2), Num(4)}
                    /\ score = Zero

\* start() on the new default engine has placed a 2 and a 4.
C11_Witness ==
    /\ last.op = "start"
    /\ last.state = DEFAULT_BOARD
    /\ startTilesAmount = START_TILES_QUANTITY_DEFAULT
    /\ Cardinality(NonZeroOf(state)) = 2
    /\ \E a \in Cells, b \in Cells :
          At(state, a) = Num(2) /\ At(state, b) = Num(4)
    /\ status = "Playing"
    /\ score = Zero

\* start() on a new engine with one empty cell only has filled that cell
\* and no other.
C11_WitnessNearlyFull ==
    /\ last.op = "start"
    /\ Cardinality(EmptyOf(last.state)) = 1
    /\ startTilesAmount = 2
    /\ Cardinality(Changed(last.state, state)) = 1

---------------------------------------------------------------------------
(* C12 *)

\* Every cell of g is 0 or a power of two, on N rows of N cells.
ValidGrid(g) == IsGrid(g) /\ \A rc \in Cells : ValidTile(At(g, rc))

\* What move(key) does with a key that is none of MOVE_KEYS, but for the
\* grid invariants: the transform is a no-op on the grid and the score,
\* one tile is spawned when a cell is empty, the status is evaluated on
\* the grid after the spawn.
InvalidKeyRunsPipeline ==
    /\ last.moved = last.state
    /\ score = last.score
    /\ EmptyOf(last.state) # {} => OneTileSpawned(last.state, state)
    /\ EmptyOf(last.state) = {} => state = last.state
    /\ status = StatusOn(state, last.status)

\* C12: move(key) with a key outside the four directions has a no-op
\* transform (no cell moves or merges, the score is unchanged), still
\* spawns one tile if a cell is empty and re-evaluates the status, and
\* leaves a grid that satisfies the grid invariants.
C12_InvalidKeyMove ==
    (last.op = "move" /\ last.key \notin MOVE_KEYS) =>
        /\ InvalidKeyRunsPipeline
        /\ ValidGrid(state)

\* The same with the grid invariants asked only of engines whose grid
\* satisfied them before the call.
C12_InvalidKeyKeepsValidGrid ==
    (last.op = "move" /\ last.key \notin MOVE_KEYS) =>
        /\ InvalidKeyRunsPipeline
        /\ ValidGrid(last.state) => ValidGrid(state)

\* A move with another key has spawned a tile on an unchanged grid and the
\* status has become Lost.
C12_InvalidKeySpawned ==
    /\ last.op = "move"
    /\ last.key = "Enter"
    /\ OneTileSpawned(last.state, state)
    /\ ValidGrid(state)
    /\ last.status = "Playing"
    /\ status = "Lost"

---------------------------------------------------------------------------
(* C13 *)

\* The score of one greedy pass: the sum of the doubled values it creates.
RECURSIVE GreedyGain(_)
GreedyGain(s) ==
    IF s = <<>>
    THEN Zero
    ELSE IF Len(s) >= 2 /\ s[1] = s[2]
         THEN Add(Double(s[1]), GreedyGain(Tail(Tail(s))))
         ELSE GreedyGain(Tail(s))

\* The greedy pass on every column of g: the grid, and the score it gives.
SlideUp(g) == Transposed(Array([c \in Idx |-> GreedyColumn(Column(g, c))]))

GainUp(g) ==
    LET gain(c) == GreedyGain(SelectSeq(Column(g, c), IsNonZero))
    IN Add(Add(gain(1), gain(2)), Add(gain(3), gain(4)))

\* The slide of the tiles of g towards the edge that key names.
Slide(key, g) ==
    CASE key = "ArrowUp"    -> SlideUp(g)
      [] key = "ArrowDown"  -> RowMirror(SlideUp(RowMirror(g)))
      [] key = "ArrowLeft"  -> Transposed(SlideUp(Transposed(g)))
      [] key = "ArrowRight" ->
            ColMirror(Transposed(SlideUp(Transposed(ColMirror(g)))))

Gain(key, g) ==
    CASE key = "ArrowUp"    -> GainUp(g)
      [] key = "ArrowDown"  -> GainUp(RowMirror(g))
      [] key = "ArrowLeft"  -> GainUp(Transposed(g))
      [] key = "ArrowRight" -> GainUp(Transposed(ColMirror(g)))

\* C13: move(direction) does not depend on the status: whatever the status
\* before the call (Idle, Playing, Won or Lost) the grid is slid towards
\* the edge and the score raised by the merges as in Playing, a tile is
\* spawned when a cell is empty after the slide, and the status is
\* evaluated again on the grid after the spawn.
C13_MoveIgnoresStatus ==
    (last.op = "move" /\ last.key \in MOVE_KEYS) =>
        /\ last.moved = Slide(last.key, last.state)
        /\ score = Add(last.score, Gain(last.key, last.state))
        /\ EmptyOf(last.moved) # {} => OneTileSpawned(last.moved, state)
        /\ EmptyOf(last.moved) = {} => state = last.moved
        /\ status = StatusOn(state, last.status)

\* A move called in status Won has merged tiles, raised the score and
\* spawned a tile.
C13_Witness ==
    /\ last.op = "move"
    /\ last.key \in MOVE_KEYS
    /\ last.status = "Won"
    /\ last.moved # last.state
    /\ score # last.score
    /\ OneTileSpawned(last.moved, state)

\* A move called in status Idle has merged tiles and spawned a tile.
C13_WitnessIdle ==
    /\ last.op = "move"
    /\ last.key \in MOVE_KEYS
    /\ last.status = "Idle"
    /\ score # last.score
    /\ OneTileSpawned(last.moved, state)

\* A move called in status Lost has run on a grid that allows no move.
C13_WitnessLost ==
    /\ last.op = "move"
    /\ last.key \in MOVE_KEYS
    /\ last.status = "Lost"
    /\ status = "Lost"

---------------------------------------------------------------------------
(* C14 *)

\* The value a cell holding v must have after sanitization without
\* forcePowerOfTwo.
KeptOrZero(v) == IF IsPow2(v) THEN v ELSE Zero

\* C14: with forcePowerOfTwo disabled the constructor maps every cell that
\* is exactly a power of two to itself and every other non-negative integer
\* to 0, values of 2^32 and above included, so that the constructed grid
\* holds only 0 and powers of two.
C14_SanitizeKeepsOnlyPowersOfTwo ==
    (last.op = "new" /\ ~last.force) =>
        /\ \A rc \in Cells : At(state, rc) = KeptOrZero(At(last.state, rc))
        /\ ValidGrid(state)

\* The same for the grids whose values are all below 2^32.
C14_SanitizeBelowWordSize ==
    (/\ last.op = "new"
     /\ ~last.force
     /\ \A rc \in Cells : \A b \in At(last.state, rc) : b < WordBits) =>
        /\ \A rc \in Cells : At(state, rc) = KeptOrZero(At(last.state, rc))
        /\ ValidGrid(state)

\* The constructor has set to 0 a 3 and a 2049 and kept the powers of two.
C14_OddValuesZeroed ==
    /\ last.op = "new"
    /\ ~last.force
    /\ At(last.state, <<1, 1>>) = Num(3)
    /\ At(last.state, <<4, 4>>) = Num(2049)
    /\ At(state, <<1, 1>>) = Zero
    /\ At(state, <<4, 4>>) = Zero
    /\ At(state, <<1, 2>>) = Num(2)

\* The constructor has kept a cell of 2^32 + 2.
C14_BigKept ==
    /\ last.op = "new"
    /\ ~last.force
    /\ \E rc \in Cells : At(last.state, rc) = Big /\ At(state, rc) = Big

---------------------------------------------------------------------------
(* C15 *)

\* C15: after a move(), whatever the status was before it, if the grid
\* allows a move and no cell holds 2048 the status is Playing, and if the
\* grid allows a move and some cell holds 2048 the status is Won.
C15_MovableGridGivesPlayingOrWon ==
    (last.op = "move" /\ CanMove(state)) =>
        status = IF Has2048(state) THEN "Won" ELSE "Playing"

\* C15, amended: after a move(), if the grid allows a move and some cell
\* holds 2048 the status is Won, whatever it was before; if the grid allows
\* a move and no cell holds 2048 the status is the one before the move:
\* Playing after Playing, Idle after Idle, Won after Won.
C15_MovableGridKeepsStatusOrWon ==
    (last.op = "move" /\ CanMove(state)) =>
        status = IF Has2048(state) THEN "Won" ELSE last.status

\* A move on an engine never started has left a grid that can move and
\* holds no 2048, and the status is still Idle.
C15_Witness ==
    /\ last.op = "move"
    /\ last.status = "Idle"
    /\ CanMove(state)
    /\ ~Has2048(state)
    /\ status = "Idle"

\* A move in status Won has merged the two 2048 tiles: the grid can move
\* and holds no 2048, and the status is still Won.
C15_WonWithout2048 ==
    /\ last.op = "move"
    /\ last.status = "Won"
    /\ CanMove(state)
    /\ ~Has2048(state)
    /\ status = "Won"

\* A move in status Playing has left a grid that can move: Playing without
\* a 2048 on it.
C15_PlayingStays ==
    /\ last.op = "move"
    /\ last.status = "Playing"
    /\ CanMove(state)
    /\ ~Has2048(state)
    /\ status = "Playing"

\* A move in status Playing has left a grid that can move and holds 2048.
C15_PlayingToWon ==
    /\ last.op = "move"
    /\ last.status = "Playing"
    /\ CanMove(state)
    /\ Has2048(state)
    /\ status = "Won"

---------------------------------------------------------------------------
(* C16 *)

\* The key whose slide the method op performs.
KeyOf(op) ==
    CASE op = "moveUp"    -> "ArrowUp"
      [] op = "moveDown"  -> "ArrowDown"
      [] op = "moveLeft"  -> "ArrowLeft"
      [] op = "moveRight" -> "ArrowRight"

\* C16: a directional transform raises the score by exactly the sum of the
\* doubled values of the pairs it merged, and by 0 when it merged nothing
\* (the grid has as many tiles after it as before); placeNewTile, start and
\* the spawn and status evaluation of a move leave the score alone.
C16_ScoreIsSumOfMergedTiles ==
    /\ last.op \in {"moveUp", "moveDown", "moveLeft", "moveRight"} =>
          /\ score = Add(last.score, Gain(KeyOf(last.op), last.state))
          /\ Cardinality(NonZeroOf(state)) = Cardinality(NonZeroOf(last.state))
                <=> score = last.score
    /\ (last.op = "move" /\ last.key \in MOVE_KEYS) =>
          /\ score = Add(last.score, Gain(last.key, last.state))
          /\ Cardinality(NonZeroOf(last.moved))
                = Cardinality(NonZeroOf(last.state)) <=> score = last.score
    /\ (last.op = "move" /\ last.key \notin MOVE_KEYS) => score = last.score
    /\ last.op \in {"placeNewTile", "start"} => score = last.score

\* moveUp has merged two pairs in column 1, one in each of columns 2 and 4,
\* none in column 3, and the score is 4 + 4 + 8 + 4 = 20.
C16_Witness ==
    /\ last.op = "moveUp"
    /\ Column(last.state, 1) = Nums(<<2, 2, 2, 2>>)
    /\ Column(last.state, 2) = Nums(<<2, 0, 4, 4>>)
    /\ Column(last.state, 3) = Nums(<<2, 4, 2, 4>>)
    /\ Column(last.state, 4) = Nums(<<4, 2, 2, 0>>)
    /\ last.score = Zero
    /\ score = Num(20)

\* A move has merged the two 1024 tiles after earlier merges: the score
\* has grown by 2048 and the spawn has not changed it.
C16_MoveWitness ==
    /\ last.op = "move"
    /\ last.key \in MOVE_KEYS
    /\ score = Add(last.score, Num(2048))
    /\ OneTileSpawned(last.moved, state)

---------------------------------------------------------------------------
(* C17 *)

---------------------------------------------------------------------------
(* C18 *)

RECURSIVE SeqSum(_)
SeqSum(s) == IF s = <<>> THEN Zero ELSE Add(Head(s), SeqSum(Tail(s)))

\* The sum of the sixteen cells of g, and the number of its tiles.
GridSum(g) == SeqSum(g[1] \o g[2] \o g[3] \o g[4])

Tiles(g) == Cardinality(NonZeroOf(g))

\* C18: a directional transform keeps the sum of the cells and does not
\* raise the number of non-zero cells; a whole move() raises the sum by 2
\* or by 4 when a cell is empty after its transform and leaves it as it was
\* otherwise.
C18_TransformKeepsSum ==
    LET before == GridSum(last.state)
        after  == GridSum(state)
    IN /\ last.op \in {"moveUp", "moveDown", "moveLeft", "moveRight"} =>
             /\ after = before
             /\ Tiles(state) <= Tiles(last.state)
       /\ last.op = "move" =>
             /\ GridSum(last.moved) = before
             /\ Tiles(last.moved) <= Tiles(last.state)
             /\ EmptyOf(last.moved) # {} =>
                   after \in {Add(before, Two), Add(before, Four)}
             /\ EmptyOf(last.moved) = {} => after = before

\* A move on a full grid has merged tiles, which emptied cells, and the sum
\* of the grid has grown by 4.
C18_Witness ==
    /\ last.op = "move"
    /\ last.key \in MOVE_KEYS
    /\ EmptyOf(last.state) = {}
    /\ Tiles(last.moved) < Tiles(last.state)
    /\ GridSum(state) = Add(GridSum(last.state), Num(4))

\* A move on a full grid that merged nothing has left the sum as it was.
C18_FullGridKeepsSum ==
    /\ last.op = "move"
    /\ EmptyOf(last.moved) = {}
    /\ GridSum(state) = GridSum(last.state)
    /\ state = last.state

---------------------------------------------------------------------------
(* C19 *)

\* C19: in every reachable state a status of Lost comes with a grid that
\* has no empty cell and no two equal neighbours; a move() with any key in
\* status Lost leaves the grid, the score and the status as they were; the
\* status leaves Lost only by start() or restart().
C19_LostIsAbsorbing ==
    /\ status = "Lost" => ~CanMove(state)
    /\ (last.op = "move" /\ last.status = "Lost") =>
          /\ state = last.state
          /\ score = last.score
          /\ status = "Lost"
    /\ (last.op # "new" /\ last.status = "Lost" /\ status # "Lost") =>
          last.op \in {"start", "restart"}

\* A move with an arrow key in status Lost, after a move that merged tiles,
\* has changed nothing.
C19_Witness ==
    /\ last.op = "move"
    /\ last.key \in MOVE_KEYS
    /\ last.status = "Lost"
    /\ ~CanMove(last.state)
    /\ state = last.state
    /\ score = last.score
    /\ score # Zero
    /\ status = "Lost"

\* restart() has left Lost.
C19_RestartLeavesLost ==
    /\ last.op = "restart"
    /\ last.status = "Lost"
    /\ status = "Playing"

\* start() has left Lost, on a grid that allows no move.
C19_StartLeavesLost ==
    /\ last.op = "start"
    /\ last.status = "Lost"
    /\ status = "Playing"
    /\ ~CanMove(state)

---------------------------------------------------------------------------
(* C20 *)

C20_NoCallSetsIdle ==
    [][/\ status' = "Idle" => status = "Idle"
       /\ last'.op \in {"start", "restart"} => status' = "Playing"]_vars

\* Under the listeners of main.js start() is called only in status Idle,
\* which by C20_NeverIdleAfterStart is before any start() or restart().
C20_ButtonStartsOnlyFromIdle ==
    [][/\ last'.op = "start" => status = "Idle"
       /\ last'.op = "restart" => status # "Idle"
       /\ last'.op = "move" => last'.key \in MOVE_KEYS]_vars

===========================================================================
